---- MODULE Spec2Model ----
(***************************************************************************)
(* Model of the IDOCR repository: the OCR-text-to-JSON extraction call     *)
(* (parse_ocr_to_json), the front/back result merger (merge_ocr_results,   *)
(* in its helper.py and its main.py/app.py variants) and the FastAPI       *)
(* request handlers that sequence upload validation, the OCR calls, the    *)
(* completion calls and the merge.                                         *)
(*                                                                         *)
(* The specifications share the variables:                                 *)
(*   SpecMerge       merge_ocr_results on bounded pairs of results         *)
(*   SpecParse       parse_ocr_to_json on bounded completion outcomes      *)
(*   Spec            one request through one of the HTTP endpoints         *)
(*   SpecApp         one run of the Streamlit script app.py                *)
(*   SpecRepair      fix_json_string on bounded texts                      *)
(*   SpecPreprocess  preprocess_ocr_text on bounded OCR texts              *)
(***************************************************************************)
EXTENDS Integers, Sequences, FiniteSets, TLC

VARIABLES
    pc,              \* position of the handler / of the function under check
    endpoint,        \* which entry point serves the request
    front_image,     \* uploaded file: [ext, size] (the only file of a single-image endpoint)
    back_image,      \* uploaded file of the two-image flow, NoFile otherwise
    document_type,   \* argument of parse_ocr_to_json
    ocr,             \* per side: "idle", "running", "ok", "failed"
    ocr_calls,       \* per side: requests sent to the OCR provider
    llm,             \* per side: "idle", "running", "done"
    llm_calls,       \* requests sent to the completion service
    merge_calls,     \* invocations of merge_ocr_results
    completion,      \* the completion-service outcome last consumed
    front_result,    \* front (or single-image) extraction result
    back_result,     \* back extraction result
    final_result,    \* outcome of merge_ocr_results: [raised, value]
    response,        \* what the caller receives: [status, body]
    ocr_error,       \* the side whose OCR failure `await gather` raises, or "none"
    fs,              \* temporary storage of an app.py run: what exists on disk
    sample           \* argument and results of a text function under check

vars == <<pc, endpoint, front_image, back_image, document_type, ocr, ocr_calls,
          llm, llm_calls, merge_calls, completion, front_result, back_result,
          final_result, response, ocr_error, fs, sample>>

-----------------------------------------------------------------------------
(* Bounds of the model *)

\* at most this many fields of a (front, back) pair of data mappings deviate
\* from "key present with a non-empty string" (absent key, null, empty string)
MaxDeviations == 2

\* longest completion reply, in characters of ReplyChars
MaxReplyLen == 6

\* longest text handed to fix_json_string
MaxTextLen == 5

\* most lines of card text (below the header) handed to preprocess_ocr_text
MaxLines == 3

-----------------------------------------------------------------------------
(* JSON / Python values.  Every value is a record [t, s, d]:                *)
(*   t  the type tag, s the text of a string, d the items of a dict.        *)

NoItems == [k \in {} |-> 0]

JNull == [t |-> "null", s |-> "", d |-> NoItems]
JTrue == [t |-> "true", s |-> "", d |-> NoItems]
JFalse == [t |-> "false", s |-> "", d |-> NoItems]
JList == [t |-> "list", s |-> "", d |-> NoItems]

JStr(text) == [t |-> "str", s |-> text, d |-> NoItems]

JDict(items) == [t |-> "dict", s |-> "", d |-> items]

\* Python truthiness, as used by `not x` and `x or y`
Truthy(v) ==
    \/ v.t = "true"
    \/ v.t = "str" /\ v.s # ""
    \/ v.t = "dict" /\ DOMAIN v.d # {}

\* dict.get(key): the value, None when the key is absent
Get(v, key) == IF key \in DOMAIN v.d THEN v.d[key] ELSE JNull

\* dict.get(key, default)
GetDefault(v, key, default) == IF key \in DOMAIN v.d THEN v.d[key] ELSE default

\* Python `a or b`
Or(a, b) == IF Truthy(a) THEN a ELSE b

\* outcome of a call: a returned value or a raised exception
Return(v) == [raised |-> "none", value |-> v]

Raise(e) == [raised |-> e, value |-> JNull]

-----------------------------------------------------------------------------
(* Messages and literals of the source *)

\* The messages are written as app.py words them; helper.py and main.py
\* return the same messages in Vietnamese.  Strings are kept in ASCII.
MSG_MERGE_FAILED == "One or both OCR processes failed"

MSG_NO_JSON_BLOCK == "No JSON block found in response"

MSG_INVALID_JSON == "Invalid JSON format: "

MSG_API_ERROR == "API error: "

DEFAULT_NATIONALITY == "Viet Nam"

Failure(msg) == JDict([success |-> JFalse, error |-> JStr(msg)])

\* keys of the identity_card template of helper.py
IdentityKeys ==
    {"personal_identification_number", "full_name", "date_of_birth", "sex",
     "nationality", "place_of_residence", "place_of_birth", "place_of_origin",
     "date_of_issue", "date_of_expiry"}

\* keys of the record built by merge_ocr_results
MergedKeys == IdentityKeys \ {"place_of_origin"}

-----------------------------------------------------------------------------
(* merge_ocr_results *)

\* mutant of merge_guard: fails only when both sides failed
merge_guard_both(front, back) ==
    ~Truthy(Get(front, "success")) /\ ~Truthy(Get(back, "success"))

\* the guard `not front_result.get("success") or not back_result.get("success")`
merge_guard(front, back) ==
    ~Truthy(Get(front, "success")) \/ ~Truthy(Get(back, "success"))

\* x["data"].get(...) : KeyError without the key, AttributeError when the
\* value under it has no .get
data_fault(result) ==
    IF "data" \notin DOMAIN result.d THEN "KeyError"
    ELSE IF result.d["data"].t # "dict" THEN "AttributeError"
    ELSE "none"

\* mutant of front_field: the back result fills a field the front lacks
front_field_or_back(front, back, key) ==
    Or(Get(front.d["data"], key), Get(back.d["data"], key))

\* fields every variant of the merger reads from the front result alone
front_field(front, back, key) == Get(front.d["data"], key)

nationality_field(front, back) ==
    GetDefault(front.d["data"], "nationality", JStr(DEFAULT_NATIONALITY))

\* helper.py (Policy B)
place_of_residence_B(front, back) ==
    Or(Get(front.d["data"], "place_of_residence"),
       Get(back.d["data"], "place_of_residence"))

\* mutant of place_of_birth_B: falls back to the front's place_of_birth
place_of_birth_B_same_key(front, back) ==
    Or(Get(back.d["data"], "place_of_birth"),
       Get(front.d["data"], "place_of_birth"))

place_of_birth_B(front, back) ==
    Or(Get(back.d["data"], "place_of_birth"),
       Get(front.d["data"], "place_of_origin"))

date_of_issue_B(front, back) == Get(back.d["data"], "date_of_issue")

date_of_expiry_B(front, back) ==
    Or(Get(back.d["data"], "date_of_expiry"),
       Get(front.d["data"], "date_of_expiry"))

merged_data_helper(front, back) ==
    [personal_identification_number |->
         front_field(front, back, "personal_identification_number"),
     full_name |-> front_field(front, back, "full_name"),
     date_of_birth |-> front_field(front, back, "date_of_birth"),
     sex |-> front_field(front, back, "sex"),
     nationality |-> nationality_field(front, back),
     place_of_residence |-> place_of_residence_B(front, back),
     place_of_birth |-> place_of_birth_B(front, back),
     date_of_issue |-> date_of_issue_B(front, back),
     date_of_expiry |-> date_of_expiry_B(front, back)]

\* mutant of place_of_residence_A: the front's value wins, as in helper.py
place_of_residence_A_front_first(front, back) ==
    Or(Get(front.d["data"], "place_of_residence"),
       Get(back.d["data"], "place_of_residence"))

\* main.py and app.py (Policy A)
place_of_residence_A(front, back) == Get(back.d["data"], "place_of_residence")

merged_data_main(front, back) ==
    [personal_identification_number |->
         front_field(front, back, "personal_identification_number"),
     full_name |-> front_field(front, back, "full_name"),
     date_of_birth |-> front_field(front, back, "date_of_birth"),
     sex |-> front_field(front, back, "sex"),
     nationality |-> nationality_field(front, back),
     place_of_residence |-> place_of_residence_A(front, back),
     place_of_birth |-> Get(back.d["data"], "place_of_birth"),
     date_of_issue |-> Get(back.d["data"], "date_of_issue"),
     date_of_expiry |-> Get(back.d["data"], "date_of_expiry")]

merged_record(data) ==
    JDict([success |-> JTrue,
           document_type |-> JStr("identity_card"),
           data |-> JDict(data)])

\* the body shared by the three definitions; `policy` selects the data
\* expression ("B": helper.py, "A": main.py and app.py)
merge_body(front, back, policy) ==
    IF front.t # "dict" THEN Raise("AttributeError")
    ELSE IF Truthy(Get(front, "success")) /\ back.t # "dict"
        THEN Raise("AttributeError")
    ELSE IF merge_guard(front, back) THEN Return(Failure(MSG_MERGE_FAILED))
    ELSE IF data_fault(front) # "none" THEN Raise(data_fault(front))
    ELSE IF data_fault(back) # "none" THEN Raise(data_fault(back))
    ELSE IF policy = "B" THEN Return(merged_record(merged_data_helper(front, back)))
    ELSE Return(merged_record(merged_data_main(front, back)))

merge_ocr_results_helper(front, back) == merge_body(front, back, "B")

merge_ocr_results_main(front, back) == merge_body(front, back, "A")

-----------------------------------------------------------------------------
(* Text.  A text is a sequence of characters; the characters that matter to *)
(* the source's regular expressions are kept apart:                         *)
(*   "F" a fence of three backticks   "J" the word json                     *)
(*   "N" a line break   "S" a space   "T" a tab                             *)
(*   "Q" a single quote   "D" a double quote   "X" any other character      *)

Whitespace == {"N", "S", "T"}

Range(seq) == {seq[i] : i \in 1..Len(seq)}

Min(set) == CHOOSE x \in set : \A y \in set : x <= y

RECURSIVE LStrip(_)
LStrip(text) ==
    IF text # <<>> /\ Head(text) \in Whitespace THEN LStrip(Tail(text)) ELSE text

RECURSIVE RStrip(_)
RStrip(text) ==
    IF text # <<>> /\ text[Len(text)] \in Whitespace
    THEN RStrip(SubSeq(text, 1, Len(text) - 1))
    ELSE text

\* mutant of Strip: only leading whitespace is removed
Strip_leading(text) == LStrip(text)

\* str.strip()
Strip(text) == RStrip(LStrip(text))

\* str.replace("'", '"')
ReplaceQuotes(text) ==
    [i \in 1..Len(text) |-> IF text[i] = "Q" THEN "D" ELSE text[i]]

\* re.sub(r'\s+', ' ', text)
RECURSIVE CollapseWhitespace(_)
CollapseWhitespace(text) ==
    IF text = <<>> THEN <<>>
    ELSE IF Head(text) \in Whitespace
        THEN <<"S">> \o CollapseWhitespace(LStrip(text))
    ELSE <<Head(text)>> \o CollapseWhitespace(Tail(text))

fix_json_string(json_string) ==
    CollapseWhitespace(Strip(ReplaceQuotes(json_string)))

\* re.search(r'```json\n(.*?)\n```', text, re.DOTALL): the leftmost opening
\* "```json\n" that some later "\n```" closes, then the nearest such closing
Openings(text) ==
    {i \in 1..Len(text) :
        /\ i + 2 <= Len(text)
        /\ text[i] = "F" /\ text[i + 1] = "J" /\ text[i + 2] = "N"}

Closings(text, i) ==
    {j \in (i + 3)..(Len(text) - 1) : text[j] = "N" /\ text[j + 1] = "F"}

json_match(text) ==
    LET starts == {i \in Openings(text) : Closings(text, i) # {}}
    IN IF starts = {} THEN [found |-> FALSE, group |-> <<>>]
       ELSE LET i == Min(starts)
                j == Min(Closings(text, i))
            IN [found |-> TRUE, group |-> SubSeq(text, i + 3, j - 1)]

\* json.loads(text).  What the "X" characters of a block spell is not part
\* of the text; `decoded` is the outcome json.loads has for them.  A text
\* without any such character (empty, or fences and markers only) is no JSON.
json_loads(text, decoded) ==
    IF "X" \notin Range(text) THEN Raise("JSONDecodeError") ELSE decoded

-----------------------------------------------------------------------------
(* parse_ocr_to_json *)

\* the document types that select a prompt template (helper.py)
TemplateTypes == {"identity_card", "motorcycle", "car", "car-inspection"}

\* the keys of `data` in the JSON template each prompt asks the model to fill
SchemaKeys(doc_type) ==
    CASE doc_type = "identity_card" -> IdentityKeys
      [] doc_type = "motorcycle" ->
            {"full_name", "address", "brand", "model_code", "engine_no",
             "chassis_no", "color", "plate_no"}
      [] doc_type = "car" ->
            {"address", "brand", "model_code", "engine_no", "chassis_no",
             "color", "plate_no", "seating_capacity", "date_of_expiry"}
      [] doc_type = "car-inspection" ->
            {"brand", "model_code", "engine_no", "chassis_no", "type",
             "capacity", "plate_no", "seating_capacity", "date_of_expiry"}
      [] OTHER -> {}

\* `prompt` is assigned only in the four branches
prompt_bound(doc_type) == doc_type \in TemplateTypes

\* mutant of requests_issued: a failed request is sent once more
requests_issued_retry(doc_type, reply) ==
    IF ~prompt_bound(doc_type) THEN 0
    ELSE IF reply.kind = "error" THEN 2
    ELSE 1

\* requests sent by client.chat.completions.create: the call is not reached
\* when evaluating its arguments raises (prompt unbound)
requests_issued(doc_type, reply) == IF prompt_bound(doc_type) THEN 1 ELSE 0

\* the try block once the completion service has answered with `reply`
parse_reply(reply) ==
    IF reply.kind = "error" THEN Failure(MSG_API_ERROR \o "diagnostic")
    ELSE IF reply.kind = "no_content"
        THEN Failure(MSG_API_ERROR \o "AttributeError")
    ELSE LET response_text == Strip(reply.text)
             m == json_match(response_text)
             json_string == fix_json_string(Strip(m.group))
             json_output == json_loads(json_string, reply.decoded)
         IN IF ~m.found THEN Failure(MSG_NO_JSON_BLOCK)
            ELSE IF json_output.raised # "none"
                THEN Failure(MSG_INVALID_JSON \o "diagnostic")
            ELSE json_output.value

\* helper.py: parse_ocr_to_json(ocr_text, document_type); main.py and app.py
\* always bind the prompt.  The outcome, and the number of requests sent.
parse_ocr_to_json(doc_type, reply) ==
    [raised |-> "none",
     value |-> IF prompt_bound(doc_type) THEN parse_reply(reply)
               ELSE Failure(MSG_API_ERROR \o "UnboundLocalError"),
     requests |-> requests_issued(doc_type, reply)]

-----------------------------------------------------------------------------
(* Extraction results the merger is applied to *)

DeviationKinds == {"absent", "null", "empty"}

\* a non-empty string value; it names its side and key, so that the origin
\* of every merged value is visible
FieldValue(side, key) == JStr(side \o "." \o key)

\* dev maps some keys to the way they deviate; the others hold FieldValue
DataOf(side, dev) ==
    JDict([k \in {key \in IdentityKeys :
                     ~(key \in DOMAIN dev /\ dev[key] = "absent")} |->
              IF k \notin DOMAIN dev THEN FieldValue(side, k)
              ELSE IF dev[k] = "null" THEN JNull
              ELSE JStr("")])

Deviations ==
    UNION {[S -> DeviationKinds] :
              S \in {T \in SUBSET IdentityKeys : Cardinality(T) <= MaxDeviations}}

NoDeviation == [k \in {} |-> "null"]

SuccessResult(side, dev) ==
    JDict([success |-> JTrue,
           document_type |-> JStr("identity_card"),
           data |-> DataOf(side, dev)])

\* what json.loads can hand back besides a well-shaped success: any JSON
\* value the completion service wrote in its fenced block
OtherResults(side) ==
    {JList,
     JNull,
     JDict(NoItems),
     Failure("reason"),
     JDict([success |-> JFalse]),
     JDict([success |-> JFalse, error |-> JStr("reason"),
            data |-> DataOf(side, NoDeviation)]),
     JDict([success |-> JNull, data |-> DataOf(side, NoDeviation)]),
     JDict([data |-> DataOf(side, NoDeviation)]),
     JDict([success |-> JTrue]),
     JDict([success |-> JTrue, data |-> JNull]),
     JDict([success |-> JTrue, data |-> JStr("text")]),
     JDict([success |-> JTrue, data |-> JList]),
     JDict([success |-> JStr("yes"), data |-> DataOf(side, NoDeviation)])}

ResultShapes(side) == OtherResults(side) \cup {SuccessResult(side, NoDeviation)}

-----------------------------------------------------------------------------
(* Idle values of the variables a specification does not use *)

NoFile == [ext |-> "", size |-> 0]

NoCompletion == [kind |-> "none", text |-> <<>>, decoded |-> Raise("none")]

NoOutcome == Raise("not called")

NoResponse == [status |-> 0, body |-> JNull]

NoStorage == [dir |-> FALSE, front |-> FALSE, back |-> FALSE]

NoText == [input |-> <<>>, once |-> <<>>, twice |-> <<>>]

Sides == {"front", "back"}

IdleRequest ==
    /\ ocr_error = "none"
    /\ fs = NoStorage
    /\ endpoint = "none"
    /\ front_image = NoFile
    /\ back_image = NoFile
    /\ document_type = "identity_card"
    /\ ocr = [s \in Sides |-> "idle"]
    /\ ocr_calls = [s \in Sides |-> 0]
    /\ llm = [s \in Sides |-> "idle"]
    /\ llm_calls = 0
    /\ merge_calls = 0
    /\ completion = NoCompletion
    /\ response = NoResponse

-----------------------------------------------------------------------------
(* SpecMerge: merge_ocr_results on bounded pairs of extraction results *)

InitMerge ==
    /\ IdleRequest
    /\ sample = NoText
    /\ pc = "merge_input"
    /\ final_result = NoOutcome
    /\ \/ \E fd \in Deviations, bd \in Deviations :
             /\ Cardinality(DOMAIN fd) + Cardinality(DOMAIN bd) <= MaxDeviations
             /\ front_result = SuccessResult("front", fd)
             /\ back_result = SuccessResult("back", bd)
       \/ /\ front_result \in ResultShapes("front")
          /\ back_result \in ResultShapes("back")

\* helper.py: merge_ocr_results(front_result, back_result)
MergeHelper ==
    /\ pc = "merge_input"
    /\ final_result' = merge_ocr_results_helper(front_result, back_result)
    /\ merge_calls' = merge_calls + 1
    /\ pc' = "merged_B"
    /\ UNCHANGED <<ocr_error, fs, sample, endpoint, front_image, back_image, document_type, ocr,
                   ocr_calls, llm, llm_calls, completion, front_result,
                   back_result, response>>

\* main.py, app.py: merge_ocr_results(front_result, back_result)
MergeMain ==
    /\ pc = "merge_input"
    /\ final_result' = merge_ocr_results_main(front_result, back_result)
    /\ merge_calls' = merge_calls + 1
    /\ pc' = "merged_A"
    /\ UNCHANGED <<ocr_error, fs, sample, endpoint, front_image, back_image, document_type, ocr,
                   ocr_calls, llm, llm_calls, completion, front_result,
                   back_result, response>>

NextMerge == MergeHelper \/ MergeMain

SpecMerge == InitMerge /\ [][NextMerge]_vars

-----------------------------------------------------------------------------
(* Claims about merge_ocr_results, checked under SpecMerge *)

Merged == pc \in {"merged_A", "merged_B"}

\* a Failure in the claims' sense: a JSON object whose `success` is false or absent
IsFailure(r) ==
    r.t = "dict" /\ ("success" \notin DOMAIN r.d \/ r.d["success"].t = "false")

ReportsSuccess(r) == r.t = "dict" /\ Truthy(Get(r, "success"))

HasDataMapping(r) == "data" \in DOMAIN r.d /\ r.d["data"].t = "dict"

\* the merge returned a record with success true
MergeSucceeded ==
    /\ Merged
    /\ final_result.raised = "none"
    /\ Get(final_result.value, "success") = JTrue

FrontData == front_result.d["data"]

BackData == back_result.d["data"]

MergedData == final_result.value.d["data"]

\* a string with at least one character
NonEmpty(v) == v.t = "str" /\ v.s # ""

\* present in the claims' sense: the key is there and its value is not null
Present(v) == v.t # "null"

\* C1: whenever both inputs are JSON objects and at least one of them is a
\* Failure (success false or absent), either merger returns exactly
\* {"success": false, "error": <message>}: no exception, no `data` key and no
\* value of either input in the result.
C1_FailurePropagates ==
    (/\ Merged
     /\ front_result.t = "dict"
     /\ back_result.t = "dict"
     /\ IsFailure(front_result) \/ IsFailure(back_result))
    => /\ final_result.raised = "none"
       /\ final_result.value = Failure(MSG_MERGE_FAILED)
       /\ DOMAIN final_result.value.d = {"success", "error"}

\* a failed front is merged with a back that succeeded and carries every field
C1_Witness ==
    /\ pc = "merged_B"
    /\ IsFailure(front_result)
    /\ "data" \in DOMAIN front_result.d
    /\ back_result = SuccessResult("back", NoDeviation)
    /\ final_result.value = Failure(MSG_MERGE_FAILED)

\* C2: when both inputs report success and one of them has no `data` mapping
\* (key missing, or a value that is not a mapping), the merger returns the
\* Failure "one or both OCR processes failed" and raises nothing.
C2_MalformedYieldsFailure ==
    (/\ Merged
     /\ ReportsSuccess(front_result)
     /\ ReportsSuccess(back_result)
     /\ ~HasDataMapping(front_result) \/ ~HasDataMapping(back_result))
    => final_result = Return(Failure(MSG_MERGE_FAILED))

\* C3 as stated: under Policy B each of the three fields is the first source
\* when that is present (key there, value not null), else the second source.
C3_FirstPresentWins ==
    (pc = "merged_B" /\ MergeSucceeded) =>
        /\ MergedData.d["place_of_residence"] =
              IF Present(Get(FrontData, "place_of_residence"))
              THEN Get(FrontData, "place_of_residence")
              ELSE Get(BackData, "place_of_residence")
        /\ MergedData.d["place_of_birth"] =
              IF Present(Get(BackData, "place_of_birth"))
              THEN Get(BackData, "place_of_birth")
              ELSE Get(FrontData, "place_of_origin")
        /\ MergedData.d["date_of_expiry"] =
              IF Present(Get(BackData, "date_of_expiry"))
              THEN Get(BackData, "date_of_expiry")
              ELSE Get(FrontData, "date_of_expiry")

\* the first source f wins when it is a non-empty string; otherwise the value
\* is the second source's, null when that key is absent
FirstNonEmpty(m, f, g) ==
    /\ NonEmpty(f) => m = f
    /\ ~NonEmpty(f) => m = g

\* C3 (amended): under Policy B each of the three fields is the first source
\* when that is a non-empty string, else the second source (null when the
\* second key is absent); an empty string counts as missing, like null and an
\* absent key.
C3_FirstNonEmptyWins ==
    (pc = "merged_B" /\ MergeSucceeded) =>
        /\ FirstNonEmpty(MergedData.d["place_of_residence"],
                         Get(FrontData, "place_of_residence"),
                         Get(BackData, "place_of_residence"))
        /\ FirstNonEmpty(MergedData.d["place_of_birth"],
                         Get(BackData, "place_of_birth"),
                         Get(FrontData, "place_of_origin"))
        /\ FirstNonEmpty(MergedData.d["date_of_expiry"],
                         Get(BackData, "date_of_expiry"),
                         Get(FrontData, "date_of_expiry"))

\* the spec's example: back.place_of_birth and front.place_of_residence are
\* null, and the merged place_of_birth is the front's place_of_origin
C3_Witness ==
    /\ pc = "merged_B"
    /\ MergeSucceeded
    /\ "place_of_birth" \in DOMAIN BackData.d
    /\ BackData.d["place_of_birth"] = JNull
    /\ "place_of_residence" \in DOMAIN FrontData.d
    /\ FrontData.d["place_of_residence"] = JNull
    /\ MergedData.d["place_of_birth"] = FieldValue("front", "place_of_origin")

\* C4: under Policy B the merged nationality is the front's nationality when
\* that is present, else the default; it is never null, whether the front's
\* key is absent or holds null.
C4_NationalityNeverNull ==
    (pc = "merged_B" /\ MergeSucceeded) =>
        /\ MergedData.d["nationality"] # JNull
        /\ MergedData.d["nationality"] =
              IF Present(Get(FrontData, "nationality"))
              THEN Get(FrontData, "nationality")
              ELSE JStr(DEFAULT_NATIONALITY)

\* C5 as stated: under Policy B personal_identification_number, full_name,
\* date_of_birth, sex and date_of_issue are the front's values, whatever the
\* back holds.
C5_FrontOnlyFields ==
    (pc = "merged_B" /\ MergeSucceeded) =>
        \A k \in {"personal_identification_number", "full_name",
                  "date_of_birth", "sex", "date_of_issue"} :
            MergedData.d[k] = Get(FrontData, k)

\* C5 (amended): under Policy B personal_identification_number, full_name,
\* date_of_birth and sex are the front's values (null when the key is absent),
\* whatever the back holds; date_of_issue is the back's value, whatever the
\* front holds.
C5_FrontOnlyFieldsAmended ==
    (pc = "merged_B" /\ MergeSucceeded) =>
        /\ \A k \in {"personal_identification_number", "full_name",
                     "date_of_birth", "sex"} :
               MergedData.d[k] = Get(FrontData, k)
        /\ MergedData.d["date_of_issue"] = Get(BackData, "date_of_issue")

\* the front lacks a portrait field that the back carries: the merged field
\* stays null
C5_Witness ==
    /\ pc = "merged_B"
    /\ MergeSucceeded
    /\ "full_name" \notin DOMAIN FrontData.d
    /\ Get(BackData, "full_name") = FieldValue("back", "full_name")
    /\ MergedData.d["full_name"] = JNull
    /\ MergedData.d["date_of_issue"] = FieldValue("back", "date_of_issue")

\* C6: under Policy A (main.py, app.py) the portrait fields are the front's
\* values (nationality: the default when the front has no such key), and
\* place_of_residence, place_of_birth, date_of_issue and date_of_expiry are
\* the back's values; nothing else influences the merged record.
C6_PolicyA ==
    (pc = "merged_A" /\ MergeSucceeded) =>
        /\ \A k \in {"personal_identification_number", "full_name",
                     "date_of_birth", "sex"} :
               MergedData.d[k] = Get(FrontData, k)
        /\ MergedData.d["nationality"] =
              GetDefault(FrontData, "nationality", JStr(DEFAULT_NATIONALITY))
        /\ \A k \in {"place_of_residence", "place_of_birth", "date_of_issue",
                     "date_of_expiry"} :
               MergedData.d[k] = Get(BackData, k)
        /\ DOMAIN MergedData.d = MergedKeys

\* the back lacks an address field that the front carries: the merged field
\* is null, not the front's value
C6_Witness ==
    /\ pc = "merged_A"
    /\ MergeSucceeded
    /\ Get(FrontData, "place_of_residence") =
          FieldValue("front", "place_of_residence")
    /\ "place_of_residence" \in DOMAIN BackData.d
    /\ BackData.d["place_of_residence"] = JNull
    /\ MergedData.d["place_of_residence"] = JNull

-----------------------------------------------------------------------------
(* SpecParse: parse_ocr_to_json on bounded completion outcomes *)

ReplyChars == {"F", "J", "N", "S", "X"}

ReplyTexts == UNION {[1..n -> ReplyChars] : n \in 0..MaxReplyLen}

\* outcomes of json.loads on a block
Decodings ==
    {Raise("JSONDecodeError")} \cup {Return(v) : v \in ResultShapes("front")}

\* json.loads is consulted only for a block that was found and has content
Decodable(text) ==
    LET m == json_match(Strip(text))
    IN m.found /\ "X" \in Range(m.group)

\* what the completion service can do with a request
Completions ==
    {[kind |-> "error", text |-> <<>>, decoded |-> Raise("none")],
     [kind |-> "no_content", text |-> <<>>, decoded |-> Raise("none")]}
    \cup {[kind |-> "text", text |-> t, decoded |-> Raise("JSONDecodeError")] :
             t \in ReplyTexts}
    \cup {[kind |-> "text", text |-> t, decoded |-> d] :
             t \in {u \in ReplyTexts : Decodable(u)}, d \in Decodings}

DocumentTypes == TemplateTypes \cup {"passport"}

InitParse ==
    /\ pc = "parse_input"
    /\ endpoint = "none"
    /\ front_image = NoFile
    /\ back_image = NoFile
    /\ document_type \in DocumentTypes
    /\ ocr = [s \in Sides |-> "idle"]
    /\ ocr_calls = [s \in Sides |-> 0]
    /\ llm = [s \in Sides |-> "idle"]
    /\ llm_calls = 0
    /\ merge_calls = 0
    /\ completion = NoCompletion
    /\ front_result = JNull
    /\ back_result = JNull
    /\ final_result = NoOutcome
    /\ response = NoResponse
    /\ ocr_error = "none"
    /\ fs = NoStorage
    /\ sample = NoText

\* one invocation of parse_ocr_to_json(ocr_text, document_type)
ParseCall ==
    /\ pc = "parse_input"
    /\ \E reply \in Completions :
          LET out == parse_ocr_to_json(document_type, reply)
          IN /\ completion' = IF out.requests = 0 THEN NoCompletion ELSE reply
             /\ llm_calls' = llm_calls + out.requests
             /\ front_result' = out.value
             /\ pc' = IF out.raised = "none" THEN "parsed" ELSE "parse_raised"
    /\ UNCHANGED <<ocr_error, fs, sample, endpoint, front_image, back_image, document_type, ocr,
                   ocr_calls, llm, merge_calls, back_result, final_result,
                   response>>

NextParse == ParseCall

SpecParse == InitParse /\ [][NextParse]_vars


-----------------------------------------------------------------------------
(* Claims about parse_ocr_to_json, checked under SpecParse *)

\* a fenced block introduced by a JSON-language marker: an opening fence
\* directly followed by the marker, and a later closing fence
ContainsJsonFence(text) ==
    \E i \in 1..Len(text), j \in 1..Len(text) :
        /\ text[i] = "F"
        /\ i + 1 < j
        /\ text[i + 1] = "J"
        /\ text[j] = "F"

\* C7: a text reply without a JSON-marked fenced block yields exactly the
\* Failure "no JSON block found in response"; a text reply with such a block
\* never yields that failure.
C7_NoBlockIffFailure ==
    (pc = "parsed" /\ completion.kind = "text") =>
        /\ ~ContainsJsonFence(completion.text)
              => front_result = Failure(MSG_NO_JSON_BLOCK)
        /\ ContainsJsonFence(completion.text)
              => front_result # Failure(MSG_NO_JSON_BLOCK)

\* C8 as stated: every invocation, whatever its document_type, sends exactly
\* one request; a failed request yields Failure("API error: ...") as data.
C8_ExactlyOneRequest ==
    pc # "parse_input" =>
        /\ pc = "parsed"
        /\ llm_calls = 1
        /\ completion.kind = "error"
              => front_result = Failure(MSG_API_ERROR \o "diagnostic")

\* C8 (amended): every invocation sends at most one request: exactly one when
\* document_type selects one of the four templates, none otherwise (the
\* result is then Failure("API error: ...") without any request).  A failed
\* request yields Failure("API error: <diagnostic>") as data, is not sent
\* again, and nothing is raised out of the function.
C8_AtMostOneRequest ==
    pc # "parse_input" =>
        /\ pc = "parsed"
        /\ llm_calls <= 1
        /\ document_type \in TemplateTypes => llm_calls = 1
        /\ document_type \notin TemplateTypes
              => /\ llm_calls = 0
                 /\ front_result = Failure(MSG_API_ERROR \o "UnboundLocalError")
        /\ completion.kind = "error"
              => front_result = Failure(MSG_API_ERROR \o "diagnostic")

\* the one request of a car-registration parse failed
C8_Witness ==
    /\ pc = "parsed"
    /\ document_type = "car"
    /\ completion.kind = "error"
    /\ llm_calls = 1
    /\ front_result = Failure(MSG_API_ERROR \o "diagnostic")

\* C11: every result of parse_ocr_to_json that reports success carries a
\* `data` mapping whose keys are exactly the fixed keys of its document type:
\* no extra key and no missing key.
C11_ClosedSchema ==
    (pc = "parsed" /\ ReportsSuccess(front_result)) =>
        /\ HasDataMapping(front_result)
        /\ DOMAIN front_result.d["data"].d = SchemaKeys(document_type)


-----------------------------------------------------------------------------
(* Spec: one request through an HTTP endpoint (helper.py, main.py) *)

\* size limit of an upload, in bytes
MAX_UPLOAD_BYTES == 5000000

allowed_extensions == {".jpg", ".jpeg", ".png"}

\* the extensions a request is tried with, and str.lower() on them
Extensions == {".jpg", ".jpeg", ".png", ".PNG", ".Jpg", ".gif", ""}

Lower(ext) ==
    CASE ext = ".PNG" -> ".png"
      [] ext = ".Jpg" -> ".jpg"
      [] OTHER -> ext

Sizes == {MAX_UPLOAD_BYTES - 1, MAX_UPLOAD_BYTES, MAX_UPLOAD_BYTES + 1}

Files == [ext : Extensions, size : Sizes]

\* the handlers: process_id_card of helper.py and of main.py, and the three
\* single-image handlers of helper.py
TwoImageEndpoints == {"helper:/process-id-card/", "main:/process-id-card/"}

SingleImageEndpoints ==
    {"/process-motobike-registration/", "/process-car-registration/",
     "/process-car-inspection/"}

Endpoints == TwoImageEndpoints \cup SingleImageEndpoints

\* the document_type each handler passes to parse_ocr_to_json
DocumentTypeOf(ep) ==
    CASE ep = "/process-motobike-registration/" -> "motorcycle"
      [] ep = "/process-car-registration/" -> "car"
      [] ep = "/process-car-inspection/" -> "car-inspection"
      [] OTHER -> "identity_card"

\* the images of the request
Images == IF endpoint \in TwoImageEndpoints THEN {"front", "back"} ELSE {"front"}

ImageOf(side) == IF side = "front" THEN front_image ELSE back_image

ext_not_allowed(file) == Lower(file.ext) \notin allowed_extensions

\* mutant of file_too_large: the limit itself is refused
file_too_large_inclusive(file) == file.size >= MAX_UPLOAD_BYTES

file_too_large(file) == file.size > MAX_UPLOAD_BYTES

MSG_BAD_EXTENSION == "Only JPG or PNG files are accepted"

MSG_TOO_LARGE == "File size exceeds 5MB"

MSG_PROCESSING == "Error while processing the image: "

MSG_OCR_ERROR == "OCR.space API error: "

\* the detail of the HTTPException ocr_space_file raises for the image of
\* `side`: it quotes the diagnostic of that call's requests.RequestException
ocr_detail(side) == "500: " \o MSG_OCR_ERROR \o side \o " diagnostic"

\* the exception `await asyncio.gather(front_task, back_task)` raises: that of
\* the call that failed first
gathered_error(raised, side) == IF raised = "none" THEN side ELSE raised

\* mutant of gather_done: the handler resumes at the first finished call
gather_done_any(ocr_state, images) ==
    \E side \in images : ocr_state[side] \in {"ok", "failed"}

\* `await asyncio.gather(...)` inside `with ThreadPoolExecutor(...)`: the
\* handler goes on only when no call of the request is left running
gather_done(ocr_state, images) ==
    \A side \in images : ocr_state[side] \in {"ok", "failed"}

\* mutant of gather_raises: only a failure of the front call is noticed
gather_raises_front_only(ocr_state, images) == ocr_state["front"] = "failed"

\* gather raises when a call of the request raised
gather_raises(ocr_state, images) ==
    \E side \in images : ocr_state[side] = "failed"

\* mutant of after_front_parse: a failed front goes straight to the merge
after_front_parse_skip(result) ==
    IF result.t = "dict" /\ Truthy(Get(result, "success")) THEN "parse_back"
    ELSE "merge"

\* process_id_card parses the back text next, whatever the front result is
after_front_parse(result) == "parse_back"

\* the response FastAPI sends for a raised HTTPException
HTTPException(status_code, detail) ==
    [status |-> status_code, body |-> JDict([detail |-> JStr(detail)])]

\* the response for a returned value
Returned(value) == [status |-> 200, body |-> value]

\* values the completion service can put in its fenced block
ReplyValues(side) ==
    {SuccessResult(side, NoDeviation),
     SuccessResult(side, [nationality |-> "null"]),
     Failure("reason"),
     JDict([success |-> JFalse]),
     JDict([success |-> JTrue]),
     JList}

\* the completion outcomes a request is tried with
RequestCompletions(side) ==
    {[kind |-> "error", text |-> <<>>, decoded |-> Raise("none")],
     [kind |-> "text", text |-> <<"X">>, decoded |-> Raise("JSONDecodeError")],
     [kind |-> "text", text |-> <<"F", "J", "S", "X", "S", "F">>,
      decoded |-> Raise("JSONDecodeError")],
     [kind |-> "text", text |-> <<"F", "J", "N", "X", "N", "F">>,
      decoded |-> Raise("JSONDecodeError")]}
    \cup {[kind |-> "text", text |-> <<"F", "J", "N", "X", "N", "F">>,
           decoded |-> Return(v)] : v \in ReplyValues(side)}

Init ==
    /\ pc = "received"
    /\ endpoint \in Endpoints
    /\ front_image \in Files
    /\ back_image \in IF endpoint \in TwoImageEndpoints THEN Files ELSE {NoFile}
    /\ document_type = DocumentTypeOf(endpoint)
    /\ ocr = [s \in Sides |-> "idle"]
    /\ ocr_calls = [s \in Sides |-> 0]
    /\ llm = [s \in Sides |-> "idle"]
    /\ llm_calls = 0
    /\ merge_calls = 0
    /\ completion = NoCompletion
    /\ front_result = JNull
    /\ back_result = JNull
    /\ final_result = NoOutcome
    /\ response = NoResponse
    /\ ocr_error = "none"
    /\ fs = NoStorage
    /\ sample = NoText

\* the checks before the try block; when they pass, the uploads are read and
\* every image's ocr_space_file call is handed to the executor
Validate ==
    /\ pc = "received"
    /\ IF \E side \in Images : ext_not_allowed(ImageOf(side))
       THEN /\ response' = HTTPException(400, MSG_BAD_EXTENSION)
            /\ pc' = "done"
            /\ UNCHANGED <<ocr, ocr_calls>>
       ELSE IF \E side \in Images : file_too_large(ImageOf(side))
       THEN /\ response' = HTTPException(400, MSG_TOO_LARGE)
            /\ pc' = "done"
            /\ UNCHANGED <<ocr, ocr_calls>>
       ELSE /\ ocr' = [s \in Sides |-> IF s \in Images THEN "running" ELSE "idle"]
            /\ ocr_calls' = [s \in Sides |->
                               IF s \in Images THEN ocr_calls[s] + 1
                               ELSE ocr_calls[s]]
            /\ pc' = "ocr"
            /\ UNCHANGED response
    /\ UNCHANGED <<ocr_error, fs, sample, endpoint, front_image, back_image, document_type, llm,
                   llm_calls, merge_calls, completion, front_result,
                   back_result, final_result>>

\* ocr_space_file returns the provider's text
OcrReturns(side) ==
    /\ pc = "ocr"
    /\ ocr[side] = "running"
    /\ ocr' = [ocr EXCEPT ![side] = "ok"]
    /\ UNCHANGED <<ocr_error, fs, sample, pc, endpoint, front_image, back_image, document_type,
                   ocr_calls, llm, llm_calls, merge_calls, completion,
                   front_result, back_result, final_result, response>>

\* ocr_space_file raises HTTPException(500) on a requests.RequestException;
\* asyncio.gather hands the awaiting handler the first exception raised
OcrFails(side) ==
    /\ pc = "ocr"
    /\ ocr[side] = "running"
    /\ ocr' = [ocr EXCEPT ![side] = "failed"]
    /\ ocr_error' = gathered_error(ocr_error, side)
    /\ UNCHANGED <<fs, sample, pc, endpoint, front_image, back_image, document_type,
                   ocr_calls, llm, llm_calls, merge_calls, completion,
                   front_result, back_result, final_result, response>>

\* the handler resumes once the executor has no call left running: with a
\* failed call the exception reaches `except Exception`, which raises
\* HTTPException(500); otherwise the front parse sends its request
OcrJoined ==
    /\ pc = "ocr"
    /\ gather_done(ocr, Images)
    /\ IF gather_raises(ocr, Images)
       THEN /\ response' = HTTPException(500, MSG_PROCESSING \o ocr_detail(ocr_error))
            /\ pc' = "done"
            /\ UNCHANGED <<llm, llm_calls>>
       ELSE /\ llm' = [llm EXCEPT !["front"] = "running"]
            /\ llm_calls' =
                  llm_calls + requests_issued(document_type, NoCompletion)
            /\ pc' = "parse_front"
            /\ UNCHANGED response
    /\ UNCHANGED <<ocr_error, fs, sample, endpoint, front_image, back_image, document_type, ocr,
                   ocr_calls, merge_calls, completion, front_result,
                   back_result, final_result>>

\* parse_ocr_to_json of the front (or only) image gets its answer; a
\* single-image handler returns the result, process_id_card goes on to the
\* back parse, which sends its request
FrontParsed ==
    /\ pc = "parse_front"
    /\ \E reply \in RequestCompletions("front") :
          /\ completion' = reply
          /\ front_result' = parse_ocr_to_json(document_type, reply).value
    /\ IF endpoint \in TwoImageEndpoints
       THEN /\ pc' = after_front_parse(front_result')
            /\ llm' = [llm EXCEPT !["front"] = "done",
                                  !["back"] = IF pc' = "parse_back"
                                              THEN "running" ELSE "idle"]
            /\ llm_calls' =
                  IF pc' = "parse_back"
                  THEN llm_calls + requests_issued(document_type, NoCompletion)
                  ELSE llm_calls
            /\ UNCHANGED response
       ELSE /\ llm' = [llm EXCEPT !["front"] = "done"]
            /\ response' = Returned(front_result')
            /\ pc' = "done"
            /\ UNCHANGED llm_calls
    /\ UNCHANGED <<ocr_error, fs, sample, endpoint, front_image, back_image, document_type, ocr,
                   ocr_calls, merge_calls, back_result, final_result>>

\* the back parse gets its answer
BackParsed ==
    /\ pc = "parse_back"
    /\ \E reply \in RequestCompletions("back") :
          /\ completion' = reply
          /\ back_result' = parse_ocr_to_json(document_type, reply).value
    /\ llm' = [llm EXCEPT !["back"] = "done"]
    /\ pc' = "merge"
    /\ UNCHANGED <<ocr_error, fs, sample, endpoint, front_image, back_image, document_type, ocr,
                   ocr_calls, llm_calls, merge_calls, front_result,
                   final_result, response>>

\* merge_ocr_results and the return; an exception out of the merger reaches
\* `except Exception`, which raises HTTPException(500)
MergeAndRespond ==
    /\ pc = "merge"
    /\ final_result' =
          IF endpoint = "helper:/process-id-card/"
          THEN merge_ocr_results_helper(front_result, back_result)
          ELSE merge_ocr_results_main(front_result, back_result)
    /\ merge_calls' = merge_calls + 1
    /\ response' =
          IF final_result'.raised = "none" THEN Returned(final_result'.value)
          ELSE HTTPException(500, MSG_PROCESSING \o final_result'.raised)
    /\ pc' = "done"
    /\ UNCHANGED <<ocr_error, fs, sample, endpoint, front_image, back_image, document_type, ocr,
                   ocr_calls, llm, llm_calls, completion, front_result,
                   back_result>>

Next ==
    \/ Validate
    \/ \E side \in Sides : OcrReturns(side)
    \/ \E side \in Sides : OcrFails(side)
    \/ OcrJoined
    \/ FrontParsed
    \/ BackParsed
    \/ MergeAndRespond

Spec == Init /\ [][Next]_vars


-----------------------------------------------------------------------------
(* Claims about the request handlers, checked under Spec *)

\* a success, or a failure of the form {"success": false, "error": <string>}
SuccessOrFailureDocument(body) ==
    /\ body.t = "dict"
    /\ "success" \in DOMAIN body.d
    /\ \/ body.d["success"] = JTrue
       \/ /\ body.d["success"] = JFalse
          /\ "error" \in DOMAIN body.d
          /\ NonEmpty(body.d["error"])

\* C9: every request that passed upload validation is answered, whatever the
\* OCR and completion services did, with a JSON document that is a success or
\* {"success": false, "error": <string>}: no fault, no error response of
\* another shape, no success false without an error string.
C9_FailuresAreData ==
    (pc = "done" /\ response.status # 400) =>
        /\ response.status = 200
        /\ SuccessOrFailureDocument(response.body)

NoCoreCall ==
    /\ \A side \in Sides : ocr_calls[side] = 0 /\ ocr[side] = "idle"
    /\ \A side \in Sides : llm[side] = "idle"
    /\ llm_calls = 0
    /\ merge_calls = 0

\* the claim's test of one upload; extensions compare without regard to case
Refused(file) ==
    \/ Lower(file.ext) \notin {".jpg", ".jpeg", ".png"}
    \/ file.size > 5000000

\* C10: in every endpoint, a request with an upload whose extension is not
\* .jpg, .jpeg or .png, or whose size is above 5,000,000 bytes, ends with a
\* client error (status 400) and at no point sends an OCR call, a completion
\* call or a merge; a request whose uploads all have an allowed extension and
\* at most 5,000,000 bytes (exactly 5,000,000 included) is not refused: its
\* images are sent to the OCR provider.
C10_ValidationGate ==
    /\ (\E side \in Images : Refused(ImageOf(side))) =>
          /\ NoCoreCall
          /\ pc \in {"received", "done"}
          /\ pc = "done" => response.status = 400
    /\ ((\A side \in Images : ~Refused(ImageOf(side))) /\ pc # "received") =>
          /\ response.status # 400
          /\ \A side \in Images : ocr_calls[side] = 1

\* a two-image request refused for its oversized back image alone, the front
\* having an allowed extension and exactly 5,000,000 bytes
C10_Witness ==
    /\ pc = "done"
    /\ endpoint = "helper:/process-id-card/"
    /\ front_image = [ext |-> ".jpeg", size |-> 5000000]
    /\ back_image = [ext |-> ".png", size |-> 5000001]
    /\ response.status = 400
    /\ NoCoreCall

TwoImageRequest == endpoint \in TwoImageEndpoints

\* C12: in a two-image request merge_ocr_results is invoked at most once, and
\* only when both OCR calls have returned and both extractions (completion
\* calls) have completed, with a success or a failure; a failed front
\* extraction is followed by the back extraction before the merge; a
\* single-image request never merges.
C12_MergeAfterBothExtractions ==
    /\ merge_calls <= 1
    /\ endpoint \in SingleImageEndpoints => merge_calls = 0 /\ pc # "merge"
    /\ (pc \in {"merge", "app_merge"} \/ merge_calls = 1) =>
          /\ \A side \in Sides : ocr[side] = "ok" /\ llm[side] = "done"
          /\ llm_calls = 2
    /\ (TwoImageRequest /\ llm["front"] = "done" /\ IsFailure(front_result)) =>
          /\ pc \in {"parse_back", "merge", "done"}
          /\ llm["back"] \in {"running", "done"}

\* a request whose front extraction failed and whose back extraction
\* succeeded has merged, once
C12_Witness ==
    /\ pc = "done"
    /\ endpoint = "main:/process-id-card/"
    /\ front_result = Failure(MSG_NO_JSON_BLOCK)
    /\ back_result = SuccessResult("back", NoDeviation)
    /\ merge_calls = 1
    /\ final_result = Return(Failure(MSG_MERGE_FAILED))

FailedSides == {side \in Images : ocr[side] = "failed"}

\* at most one OCR call per image, so at most two in flight; no completion
\* call before every OCR call has returned; the front completion call has
\* finished before the back one starts
OcrThenSequentialParses ==
    /\ \A side \in Sides : ocr_calls[side] <= 1
    /\ Cardinality({side \in Sides : ocr[side] = "running"})
          <= Cardinality(Images)
    /\ (llm_calls > 0 \/ \E side \in Sides : llm[side] # "idle") =>
          \A side \in Images : ocr[side] = "ok"
    /\ ~(llm["front"] = "running" /\ llm["back"] = "running")
    /\ llm["back"] # "idle" => llm["front"] = "done"
    /\ llm_calls <= Cardinality({side \in Sides : llm[side] # "idle"})

\* C13 as stated: the two OCR calls may run together, no completion call is
\* issued before both have returned, the completion calls do not overlap,
\* and the answer is the same whichever OCR call finishes first: when OCR
\* calls failed, the answer is the one any of the failed calls alone leads to.
C13_OrderIndependent ==
    /\ OcrThenSequentialParses
    /\ (pc = "done" /\ FailedSides # {}) =>
          \A side \in FailedSides :
             response = HTTPException(500, MSG_PROCESSING \o ocr_detail(side))

\* C13 (amended): the same ordering and overlap properties; the answer does
\* not depend on which OCR call returns first except when both fail: the
\* error detail is then that of one of the two failed calls (the one that
\* failed first), status and shape being the same either way.
C13_OrderIndependentUnlessBothFail ==
    /\ OcrThenSequentialParses
    /\ (pc = "done" /\ FailedSides # {}) =>
          /\ ocr_error \in FailedSides
          /\ response = HTTPException(500, MSG_PROCESSING \o ocr_detail(ocr_error))
          /\ Cardinality(FailedSides) = 1 => FailedSides = {ocr_error}

\* both OCR calls of a request were in flight together and both failed, the
\* back one first: the answer quotes the back call's diagnostic
C13_Witness ==
    /\ pc = "done"
    /\ TwoImageRequest
    /\ FailedSides = {"front", "back"}
    /\ ocr_error = "back"
    /\ response = HTTPException(500, MSG_PROCESSING \o ocr_detail("back"))

\* C14: in every endpoint, once an OCR call of a request has failed, the
\* request ends with an error response (status 500 with a detail, never a
\* success), no completion call and no merge is made for it, and no image is
\* sent to the OCR provider more than once, whichever call fails and in
\* whichever order the calls finish.
C14_OcrFailureAborts ==
    /\ \A side \in Sides : ocr_calls[side] <= 1
    /\ FailedSides # {} =>
          /\ pc \in {"ocr", "done"}
          /\ llm_calls = 0
          /\ \A side \in Sides : llm[side] = "idle"
          /\ merge_calls = 0
          /\ final_result = NoOutcome
          /\ pc = "done" =>
                /\ response.status = 500
                /\ DOMAIN response.body.d = {"detail"}

\* the back OCR call failed after the front one had returned its text
C14_Witness ==
    /\ pc = "done"
    /\ TwoImageRequest
    /\ ocr = [front |-> "ok", back |-> "failed"]
    /\ ocr_calls = [front |-> 1, back |-> 1]
    /\ llm_calls = 0
    /\ response.status = 500


-----------------------------------------------------------------------------
(* SpecApp: one run of the Streamlit script (app.py) *)

\* what st.file_uploader hands the script: None, or an uploaded jpg/png
AppUploads ==
    {NoFile, [ext |-> ".jpg", size |-> 1], [ext |-> ".png", size |-> 1]}

\* `if front_image and back_image:`
both_uploaded(front, back) == front # NoFile /\ back # NoFile

\* what the page shows: st.json(value), st.error(message), st.info(message)
st_json(value) == [status |-> 200, body |-> value]

st_error(message) == [status |-> 500, body |-> JStr(MSG_PROCESSING \o message)]

st_info == [status |-> 100, body |-> JStr("Please upload both images")]

\* the statements of the try block, in program order
AppSteps ==
    <<"app_write_front", "app_write_back", "app_ocr_front", "app_parse_front",
      "app_ocr_back", "app_parse_back", "app_merge">>

\* the statement after `step`; after the last one the finally block runs
AppAfter(step) ==
    LET i == CHOOSE k \in 1..Len(AppSteps) : AppSteps[k] = step
    IN IF i < Len(AppSteps) THEN AppSteps[i + 1] ELSE "app_finally"

\* with open(path, "wb") as f: f.write(...): the file exists once open
\* succeeded, whether or not the write then fails
WriteOutcomes == {"written", "open_failed", "write_failed"}

\* `if os.path.exists(path): os.unlink(path)`: whether the file exists after
exists_after_unlink(exists) == FALSE

\* `if os.path.exists(temp_dir): os.rmdir(temp_dir)`, OSError ignored: the
\* directory stays only when a file is left in it
exists_after_rmdir(dir, front, back) == dir /\ (front \/ back)

InitApp ==
    /\ pc = "app_start"
    /\ endpoint = "app.py"
    /\ front_image \in AppUploads
    /\ back_image \in AppUploads
    /\ document_type = "identity_card"
    /\ ocr = [s \in Sides |-> "idle"]
    /\ ocr_calls = [s \in Sides |-> 0]
    /\ llm = [s \in Sides |-> "idle"]
    /\ llm_calls = 0
    /\ merge_calls = 0
    /\ completion = NoCompletion
    /\ front_result = JNull
    /\ back_result = JNull
    /\ final_result = NoOutcome
    /\ response = NoResponse
    /\ ocr_error = "none"
    /\ fs = NoStorage
    /\ sample = NoText

\* os.makedirs(temp_dir, exist_ok=True), temp_dir named by a fresh uuid4
MakeTempDir ==
    /\ pc = "app_start"
    /\ fs' = [fs EXCEPT !.dir = TRUE]
    /\ pc' = "app_uploads"
    /\ UNCHANGED <<ocr_error, sample, endpoint, front_image, back_image,
                   document_type, ocr, ocr_calls, llm, llm_calls, merge_calls,
                   completion, front_result, back_result, final_result,
                   response>>

\* the test of the two uploaders; the else branch only shows a notice
CheckUploads ==
    /\ pc = "app_uploads"
    /\ IF both_uploaded(front_image, back_image)
       THEN pc' = "app_write_front" /\ UNCHANGED response
       ELSE pc' = "app_end" /\ response' = st_info
    /\ UNCHANGED <<ocr_error, fs, sample, endpoint, front_image, back_image,
                   document_type, ocr, ocr_calls, llm, llm_calls, merge_calls,
                   completion, front_result, back_result, final_result>>

\* an upload is saved under temp_dir; an OSError reaches `except Exception`
WriteUpload(side) ==
    /\ pc = "app_write_" \o side
    /\ \E outcome \in WriteOutcomes :
          /\ fs' = [fs EXCEPT ![side] = outcome # "open_failed"]
          /\ IF outcome = "written"
             THEN pc' = AppAfter(pc) /\ UNCHANGED response
             ELSE pc' = "app_finally" /\ response' = st_error("OSError")
    /\ UNCHANGED <<ocr_error, sample, endpoint, front_image, back_image,
                   document_type, ocr, ocr_calls, llm, llm_calls, merge_calls,
                   completion, front_result, back_result, final_result>>

\* ocr_space_file(filename=path): one post; a requests exception is not
\* caught in the function and reaches `except Exception`
AppOcr(side) ==
    /\ pc = "app_ocr_" \o side
    /\ ocr_calls' = [ocr_calls EXCEPT ![side] = @ + 1]
    /\ \E returned \in BOOLEAN :
          IF returned
          THEN /\ ocr' = [ocr EXCEPT ![side] = "ok"]
               /\ pc' = AppAfter(pc)
               /\ UNCHANGED <<ocr_error, response>>
          ELSE /\ ocr' = [ocr EXCEPT ![side] = "failed"]
               /\ ocr_error' = side
               /\ pc' = "app_finally"
               /\ response' = st_error("RequestException")
    /\ UNCHANGED <<fs, sample, endpoint, front_image, back_image,
                   document_type, llm, llm_calls, merge_calls, completion,
                   front_result, back_result, final_result>>

\* parse_ocr_to_json(ocr_text): failures come back as data
AppParse(side) ==
    /\ pc = "app_parse_" \o side
    /\ \E reply \in RequestCompletions(side) :
          LET out == parse_ocr_to_json(document_type, reply)
          IN /\ completion' = reply
             /\ llm_calls' = llm_calls + out.requests
             /\ IF side = "front"
                THEN front_result' = out.value /\ UNCHANGED back_result
                ELSE back_result' = out.value /\ UNCHANGED front_result
    /\ llm' = [llm EXCEPT ![side] = "done"]
    /\ pc' = AppAfter(pc)
    /\ UNCHANGED <<ocr_error, fs, sample, endpoint, front_image, back_image,
                   document_type, ocr, ocr_calls, merge_calls, final_result,
                   response>>

\* merge_ocr_results and st.json; a fault of the merger reaches
\* `except Exception`
AppMerge ==
    /\ pc = "app_merge"
    /\ final_result' = merge_ocr_results_main(front_result, back_result)
    /\ merge_calls' = merge_calls + 1
    /\ response' = IF final_result'.raised = "none"
                   THEN st_json(final_result'.value)
                   ELSE st_error(final_result'.raised)
    /\ pc' = AppAfter(pc)
    /\ UNCHANGED <<ocr_error, fs, sample, endpoint, front_image, back_image,
                   document_type, ocr, ocr_calls, llm, llm_calls, completion,
                   front_result, back_result>>

\* the finally block: both files are unlinked, then the directory removed
AppFinally ==
    /\ pc = "app_finally"
    /\ LET front == exists_after_unlink(fs.front)
           back == exists_after_unlink(fs.back)
       IN fs' = [dir |-> exists_after_rmdir(fs.dir, front, back),
                 front |-> front, back |-> back]
    /\ pc' = "app_end"
    /\ UNCHANGED <<ocr_error, sample, endpoint, front_image, back_image,
                   document_type, ocr, ocr_calls, llm, llm_calls, merge_calls,
                   completion, front_result, back_result, final_result,
                   response>>

NextApp ==
    \/ MakeTempDir
    \/ CheckUploads
    \/ \E side \in Sides : WriteUpload(side)
    \/ \E side \in Sides : AppOcr(side)
    \/ \E side \in Sides : AppParse(side)
    \/ AppMerge
    \/ AppFinally

SpecApp == InitApp /\ [][NextApp]_vars

\* C15: when a run of the Streamlit script has ended, nothing it created in
\* temporary storage exists any more (neither file, nor its directory), on
\* every exit path: merge shown, extraction failure, error during write or
\* OCR, and a run with fewer than two uploads.
C15_NoTemporaryStorageLeft ==
    pc = "app_end" => fs = NoStorage


-----------------------------------------------------------------------------
(* SpecRepair: fix_json_string on bounded texts *)

\* characters of an argument: the three kinds of whitespace, the single and
\* the double quote, and any other character
TextChars == {"N", "S", "T", "Q", "D", "X"}

Texts == UNION {[1..n -> TextChars] : n \in 0..MaxTextLen}

InitRepair ==
    /\ IdleRequest
    /\ pc = "repair_input"
    /\ front_result = JNull
    /\ back_result = JNull
    /\ final_result = NoOutcome
    /\ \E input \in Texts : sample = [NoText EXCEPT !.input = input]

\* fix_json_string(s)
RepairOnce ==
    /\ pc = "repair_input"
    /\ sample' = [sample EXCEPT !.once = fix_json_string(sample.input)]
    /\ pc' = "repaired_once"
    /\ UNCHANGED <<ocr_error, fs, endpoint, front_image, back_image,
                   document_type, ocr, ocr_calls, llm, llm_calls, merge_calls,
                   completion, front_result, back_result, final_result,
                   response>>

\* fix_json_string(fix_json_string(s))
RepairTwice ==
    /\ pc = "repaired_once"
    /\ sample' = [sample EXCEPT !.twice = fix_json_string(sample.once)]
    /\ pc' = "repaired_twice"
    /\ UNCHANGED <<ocr_error, fs, endpoint, front_image, back_image,
                   document_type, ocr, ocr_calls, llm, llm_calls, merge_calls,
                   completion, front_result, back_result, final_result,
                   response>>

NextRepair == RepairOnce \/ RepairTwice

SpecRepair == InitRepair /\ [][NextRepair]_vars

\* no single quote, no whitespace but single spaces, none at either end
Repaired(text) ==
    /\ "Q" \notin Range(text)
    /\ \A i \in 1..Len(text) : text[i] \in Whitespace => text[i] = "S"
    /\ \A i \in 1..Len(text) - 1 :
          ~(text[i] \in Whitespace /\ text[i + 1] \in Whitespace)
    /\ text # <<>> => text[1] \notin Whitespace /\ text[Len(text)] \notin Whitespace

\* C16: for every input without a single quote, applying fix_json_string
\* twice gives the same text as applying it once; and every output is free of
\* single quotes, of whitespace other than single spaces, of runs of two or
\* more whitespace characters and of leading or trailing whitespace.
C16_RepairIdempotent ==
    /\ pc # "repair_input" => Repaired(sample.once)
    /\ pc = "repaired_twice" =>
          /\ Repaired(sample.twice)
          /\ "Q" \notin Range(sample.input) => sample.twice = sample.once

\* a text with leading, inner and trailing whitespace of mixed kinds and no
\* single quote has been repaired twice
C16_Witness ==
    /\ pc = "repaired_twice"
    /\ sample.input = <<"N", "X", "T", "S", "D">>
    /\ sample.once = <<"X", "S", "D">>
    /\ sample.twice = sample.once


-----------------------------------------------------------------------------
(* preprocess_ocr_text (helper.py).  A text is a sequence of symbols:      *)
(*   "O"  the caption "Que quan" or "Place of origin", in any case         *)
(*   "R"  the caption "Noi thuong tru" or "Place of residence"             *)
(*   "E"  the caption of another field, such as "Date of expiry"           *)
(*   "G"  the misread label "Gioi tinh", "g" the label as corrected        *)
(*   "1".."4"  the four header lines the last substitution looks for       *)
(*   "C"  a colon or dash, "M" a comma, "N" a line break, "S" a space,     *)
(*   "T"  other whitespace, "X" any other text                             *)

\* number of whitespace symbols from index k on
RECURSIVE WsRun(_, _)
WsRun(text, k) ==
    IF k <= Len(text) /\ text[k] \in Whitespace THEN 1 + WsRun(text, k + 1)
    ELSE 0

\* re.sub(r"\s*\n\s*", "\n", text): every whitespace run that holds a line
\* break becomes one line break
RECURSIVE normalize_breaks(_)
normalize_breaks(text) ==
    IF text = <<>> THEN <<>>
    ELSE IF Head(text) \in Whitespace
        THEN LET n == WsRun(text, 1)
                 run == SubSeq(text, 1, n)
             IN (IF "N" \in Range(run) THEN <<"N">> ELSE run)
                \o normalize_breaks(SubSeq(text, n + 1, Len(text)))
    ELSE <<Head(text)>> \o normalize_breaks(Tail(text))

\* re.sub(r"Gioi tinh", "Gioi tinh (corrected)", text, flags=re.IGNORECASE)
fix_sex_label(text) ==
    [i \in 1..Len(text) |-> IF text[i] = "G" THEN "g" ELSE text[i]]

\* index of the last symbol of the line that holds index k
LineEnd(text, k) ==
    Min({j \in k..Len(text) : j = Len(text) \/ text[j + 1] = "N"})

\* ([^\n]+(?:\n[^\n]+)*) from a line ending at k: every following line is
\* taken as long as it is not empty
RECURSIVE GroupEnd(_, _)
GroupEnd(text, k) ==
    IF k + 2 <= Len(text) /\ text[k + 1] = "N" /\ text[k + 2] # "N"
    THEN GroupEnd(text, LineEnd(text, k + 2))
    ELSE k

\* the ways \s*[:\-]?\s*\n can match after a caption at index i, as
\* <<a, c, b>>: a whitespace symbols, c colons or dashes, b whitespace
\* symbols, then a line break that a non-empty line follows
CaptionTails(text, i) ==
    {t \in (0..WsRun(text, i + 1)) \X {0, 1} \X (0..Len(text)) :
        LET a == t[1]
            c == t[2]
            b == t[3]
            e == i + a + c + b + 1
        IN /\ e + 1 <= Len(text)
           /\ c = 1 => text[i + a + 1] = "C"
           /\ b <= WsRun(text, i + a + c + 1)
           /\ text[e] = "N"
           /\ text[e + 1] # "N"}

\* the match the regex engine settles on: each quantifier is greedy, and an
\* earlier one gives way only when the later ones cannot succeed
PreferredTail(text, i) ==
    CHOOSE t \in CaptionTails(text, i) :
        \A u \in CaptionTails(text, i) :
            \/ t[1] > u[1]
            \/ t[1] = u[1] /\ t[2] > u[2]
            \/ t[1] = u[1] /\ t[2] = u[2] /\ t[3] >= u[3]

\* re.sub(r"\n", ", ", group)
comma_join(group) ==
    LET Piece(i) == IF group[i] = "N" THEN <<"M", "S">> ELSE <<group[i]>>
        F[i \in 0..Len(group)] == IF i = 0 THEN <<>> ELSE F[i - 1] \o Piece(i)
    IN F[Len(group)]

\* re.sub of the caption pattern over text from index p on: the leftmost
\* match is replaced by "<caption>: <lines joined by comma-space>", and the
\* search goes on behind it
RECURSIVE join_after_caption(_, _, _)
join_after_caption(text, caption, p) ==
    LET starts == {i \in p..Len(text) :
                      text[i] = caption /\ CaptionTails(text, i) # {}}
    IN IF starts = {} THEN SubSeq(text, p, Len(text))
       ELSE LET i == Min(starts)
                t == PreferredTail(text, i)
                e == i + t[1] + t[2] + t[3] + 1
                f == GroupEnd(text, LineEnd(text, e + 1))
            IN SubSeq(text, p, i - 1)
               \o <<caption, "C", "S">>
               \o comma_join(Strip(SubSeq(text, e + 1, f)))
               \o join_after_caption(text, caption, f + 1)

\* first index >= p at which pattern occurs in text, 0 when there is none
FirstAt(text, pattern, p) ==
    LET hits == {j \in p..(Len(text) - Len(pattern) + 1) :
                    SubSeq(text, j, j + Len(pattern) - 1) = pattern}
    IN IF hits = {} THEN 0 ELSE Min(hits)

\* index of the last symbol of the header match that starts at i, 0 when the
\* pattern "1\n.*?\n2\n.*?\n3\n.*?\n4" does not match there
HeaderEnd(text, i) ==
    IF ~(i + 1 <= Len(text) /\ text[i] = "1" /\ text[i + 1] = "N") THEN 0
    ELSE LET j2 == FirstAt(text, <<"N", "2", "N">>, i + 2)
             j3 == IF j2 = 0 THEN 0 ELSE FirstAt(text, <<"N", "3", "N">>, j2 + 3)
             j4 == IF j3 = 0 THEN 0 ELSE FirstAt(text, <<"N", "4">>, j3 + 3)
         IN IF j4 = 0 THEN 0 ELSE j4 + 1

\* re.sub(<header pattern>, "", text, flags=IGNORECASE | DOTALL)
RECURSIVE remove_header(_, _)
remove_header(text, p) ==
    LET starts == {i \in p..Len(text) : HeaderEnd(text, i) # 0}
    IN IF starts = {} THEN SubSeq(text, p, Len(text))
       ELSE LET i == Min(starts)
            IN SubSeq(text, p, i - 1)
               \o remove_header(text, HeaderEnd(text, i) + 1)

preprocess_ocr_text(ocr_text) ==
    LET normalized == fix_sex_label(normalize_breaks(Strip(ocr_text)))
        origin == join_after_caption(normalized, "O", 1)
        residence == join_after_caption(origin, "R", 1)
    IN Strip(remove_header(residence, 1))


-----------------------------------------------------------------------------
(* SpecPreprocess: preprocess_ocr_text on bounded OCR texts *)

\* the lines an OCR text is put together from: captions whose value was
\* pushed to the next line, captioned fields on one line, address fragments,
\* an empty line
LineShapes ==
    {<<"O", "C">>, <<"O", "S", "C", "S">>, <<"X", "S", "O", "C">>,
     <<"O", "C", "S", "X">>, <<"R", "C">>, <<"R", "C", "S", "X">>,
     <<"X">>, <<"X", "M", "S", "X">>, <<"E", "C", "S", "X">>,
     <<"G", "C", "S", "X">>, <<>>}

\* the top of a card as the OCR service returns it, when it is in the text
HeaderLines ==
    {<<>>, <<<<"1">>, <<"X">>, <<"2">>, <<"X">>, <<"3">>, <<"X">>, <<"4">>>>}

\* the lines, each followed by a line break
JoinLines(lines) ==
    LET F[i \in 0..Len(lines)] ==
           IF i = 0 THEN <<>> ELSE F[i - 1] \o lines[i] \o <<"N">>
    IN F[Len(lines)]

OcrTexts ==
    {JoinLines(header \o body) :
        header \in HeaderLines,
        body \in UNION {[1..n -> LineShapes] : n \in 1..MaxLines}}

InitPreprocess ==
    /\ IdleRequest
    /\ pc = "preprocess_input"
    /\ front_result = JNull
    /\ back_result = JNull
    /\ final_result = NoOutcome
    /\ \E input \in OcrTexts : sample = [NoText EXCEPT !.input = input]

\* preprocess_ocr_text(ocr_text)
Preprocess ==
    /\ pc = "preprocess_input"
    /\ sample' = [sample EXCEPT !.once = preprocess_ocr_text(sample.input)]
    /\ pc' = "preprocessed"
    /\ UNCHANGED <<ocr_error, fs, endpoint, front_image, back_image,
                   document_type, ocr, ocr_calls, llm, llm_calls, merge_calls,
                   completion, front_result, back_result, final_result,
                   response>>

NextPreprocess == Preprocess

SpecPreprocess == InitPreprocess /\ [][NextPreprocess]_vars

Captions == {"O", "R", "E", "G", "g"}

\* the indices at which a line of text begins with a field caption
CaptionedLines(text) ==
    {i \in 1..Len(text) :
        text[i] \in Captions /\ (i = 1 \/ text[i - 1] = "N")}

\* C17: the rejoining of a split address never crosses into the next labeled
\* field: as many lines begin with a field caption in the output as in the
\* text whose line breaks were normalised, so every later captioned line is
\* still a line of its own.
C17_JoinStopsAtNextCaption ==
    pc = "preprocessed" =>
        Cardinality(CaptionedLines(sample.once))
           = Cardinality(CaptionedLines(normalize_breaks(Strip(sample.input))))

====
